---------------------------- MODULE Spec2Model ----------------------------
(***************************************************************************)
(* Regex-to-NFA conversion (src/nfa_gui.py): expand_character_classes,     *)
(* infix_to_postfix and postfix_to_nfa (Thompson's construction).          *)
(*                                                                         *)
(* A Python str is modelled as a sequence of one-character strings.  A     *)
(* call either returns a value or raises; the variable ret records which. *)
(***************************************************************************)
EXTENDS Integers, Sequences, FiniteSets, TLC

VARIABLES
    regex,          \* argument of expand_character_classes / infix_to_postfix
    explicit,       \* infix_to_postfix: the pattern with '.' inserted
    ret,            \* outcome of the call: returned value or raised error
    postfix,        \* the tokens of postfix_to_nfa's argument consumed so far
    stack,          \* postfix_to_nfa: operand stack of NFA fragments
    next_state_id,  \* postfix_to_nfa: next_state_id[0]
    issued,         \* history: every value new_state() has returned, in order
    nfa1, nfa2, nfa,\* postfix_to_nfa: the loop body's locals
    pc              \* position of the running call

vars == <<regex, explicit, ret, postfix, stack, next_state_id, issued,
          nfa1, nfa2, nfa, pc>>

--------------------------------------------------------------------------
(* Bounds of the model *)

MaxRegexLen == 6
MaxInfixLen == 5
MaxTokens == 6

--------------------------------------------------------------------------
(* Characters: ord() and chr() on the printable ASCII range 32..126.  Each  *)
(* character is the string holding it, except chr(96), written "grave"      *)
(* because a TLA+ string cannot hold a backquote.                           *)

Ascii ==
   << 
      " ", "!", "\"", "#", "$", "%", "&", "'",
      "(", ")", "*", "+", ",", "-", ".", "/",
      "0", "1", "2", "3", "4", "5", "6", "7",
      "8", "9", ":", ";", "<", "=", ">", "?",
      "@", "A", "B", "C", "D", "E", "F", "G",
      "H", "I", "J", "K", "L", "M", "N", "O",
      "P", "Q", "R", "S", "T", "U", "V", "W",
      "X", "Y", "Z", "[", "\\", "]", "^", "_",
      "grave", "a", "b", "c", "d", "e", "f", "g",
      "h", "i", "j", "k", "l", "m", "n", "o",
      "p", "q", "r", "s", "t", "u", "v", "w",
      "x", "y", "z", "{", "|", "}", "~" >>

Chr(n) == Ascii[n - 31]

Ord(c) == CHOOSE n \in 32..126 : Ascii[n - 31] = c

Returned(v) == [ok |-> TRUE, value |-> v]

Raised(e) == [ok |-> FALSE, error |-> e]

\* all sequences over S of length at most n
SeqsUpTo(S, n) == UNION {[1..k -> S] : k \in 0..n}

Range(s) == {s[k] : k \in DOMAIN s}

--------------------------------------------------------------------------
(* expand_character_classes (src/nfa_gui.py:60-84).  Positions are 1-based: *)
(* Python index p is position p + 1, and j == len(regex) is Len(regex) + 1. *)

\* j = i + 1; while j < len(regex) and regex[j] != ']': j += 1
RECURSIVE FindClose(_, _)
FindClose(s, j) ==
    IF j <= Len(s) /\ s[j] # "]" THEN FindClose(s, j + 1) ELSE j

\* [chr(c) for c in range(ord(start), ord(end)+1)]
ClassCharsOmitEnd(start, end) ==
    [k \in 1..(Ord(end) - Ord(start)) |-> Chr(Ord(start) + k - 1)]

ClassChars(start, end) ==
    [k \in 1..(Ord(end) - Ord(start) + 1) |-> Chr(Ord(start) + k - 1)]

\* sep.join(chars)
RECURSIVE Join(_, _)
Join(sep, chars) ==
    IF Len(chars) = 0 THEN <<>>
    ELSE IF Len(chars) = 1 THEN <<chars[1]>>
    ELSE <<chars[1], sep>> \o Join(sep, Tail(chars))

\* if dash != '-'
DashNeverChecked(dash) == FALSE

DashInvalid(dash) == dash # "-"

\* the body of "if regex[i] == '['" once the closing bracket is found
ExpandClass(content) ==
    IF "-" \in Range(content) /\ Len(content) = 3
    THEN IF DashInvalid(content[2])
         THEN Raised("Invalid character class")
         ELSE Returned(<<"(">> \o Join("|", ClassChars(content[1], content[3]))
                            \o <<")">>)
    ELSE Raised("Only simple ranges like [a-z] supported")

\* the while loop, from position i with the text accumulated so far
RECURSIVE ExpandLoop(_, _, _)
ExpandLoop(s, i, expanded) ==
    IF i > Len(s) THEN Returned(expanded)
    ELSE IF s[i] = "["
    THEN LET j == FindClose(s, i + 1) IN
         IF j = Len(s) + 1 THEN Raised("Unmatched [ in regex")
         ELSE LET e == ExpandClass(SubSeq(s, i + 1, j - 1)) IN
              IF e.ok THEN ExpandLoop(s, j + 1, expanded \o e.value) ELSE e
    ELSE ExpandLoop(s, i + 1, Append(expanded, s[i]))

expand_character_classes(s) == ExpandLoop(s, 1, <<>>)

--------------------------------------------------------------------------
(* infix_to_postfix (src/nfa_gui.py:86-120).  A Python list is a sequence   *)
(* whose last element is the top of the stack.                              *)

\* if (c not in ['(', '|']) and (nxt not in [')', '|', '*', '+', '?'])
NeedsConcat(c, nxt) ==
    c \notin {"(", "|"} /\ nxt \notin {")", "|", "*", "+", "?"}

\* the first for loop: explicit.append(c), then '.' where NeedsConcat
RECURSIVE ExplicitFrom(_, _)
ExplicitFrom(s, i) ==
    IF i > Len(s) THEN <<>>
    ELSE <<s[i]>>
         \o (IF i < Len(s) /\ NeedsConcat(s[i], s[i + 1]) THEN <<".">> ELSE <<>>)
         \o ExplicitFrom(s, i + 1)

ExplicitConcat(s) == ExplicitFrom(s, 1)

\* precedence = {'*': 3, '+': 3, '?': 3, '.': 2, '|': 1, '(': 0}
precedence ==
    [c \in {"*", "+", "?", ".", "|", "("} |->
        CASE c \in {"*", "+", "?"} -> 3
          [] c = "." -> 2
          [] c = "|" -> 1
          [] c = "(" -> 0]

\* while stack and stack[-1] != '(': output.append(stack.pop())
RECURSIVE PopToParen(_, _)
PopToParen(output, stk) ==
    IF Len(stk) > 0 /\ stk[Len(stk)] # "("
    THEN PopToParen(Append(output, stk[Len(stk)]), SubSeq(stk, 1, Len(stk) - 1))
    ELSE [output |-> output, stack |-> stk]

\* precedence[stack[-1]] >= precedence[char]
PopsStrictlyHigher(top, char) == precedence[top] > precedence[char]

PopsBefore(top, char) == precedence[top] >= precedence[char]

\* while stack and precedence[stack[-1]] >= precedence[char]: output.append(stack.pop())
RECURSIVE PopByPrecedence(_, _, _)
PopByPrecedence(output, stk, char) ==
    IF Len(stk) > 0 /\ PopsBefore(stk[Len(stk)], char)
    THEN PopByPrecedence(Append(output, stk[Len(stk)]),
                         SubSeq(stk, 1, Len(stk) - 1), char)
    ELSE [output |-> output, stack |-> stk]

\* the final "while stack: output.append(stack.pop())"
RECURSIVE PopAll(_, _)
PopAll(output, stk) ==
    IF Len(stk) > 0
    THEN PopAll(Append(output, stk[Len(stk)]), SubSeq(stk, 1, Len(stk) - 1))
    ELSE output

\* the second for loop from position i, then the final loop and the return;
\* stack.pop() on an empty list raises IndexError
RECURSIVE ShuntFrom(_, _, _, _)
ShuntFrom(s, i, output, stk) ==
    IF i > Len(s) THEN Returned(PopAll(output, stk))
    ELSE LET char == s[i] IN
         IF char = "(" THEN ShuntFrom(s, i + 1, output, Append(stk, char))
         ELSE IF char = ")"
         THEN LET r == PopToParen(output, stk) IN
              IF Len(r.stack) = 0 THEN Raised("IndexError: pop from empty list")
              ELSE ShuntFrom(s, i + 1, r.output,
                             SubSeq(r.stack, 1, Len(r.stack) - 1))
         ELSE IF char \in DOMAIN precedence
         THEN LET r == PopByPrecedence(output, stk, char) IN
              ShuntFrom(s, i + 1, r.output, Append(r.stack, char))
         ELSE ShuntFrom(s, i + 1, Append(output, char), stk)

ShuntingYard(s) == ShuntFrom(s, 1, <<>>, <<>>)

infix_to_postfix(s) == ShuntingYard(ExplicitConcat(s))

--------------------------------------------------------------------------
(* class NFA and postfix_to_nfa (src/nfa_gui.py:10-22, 122-191).  A dict is *)
(* a function on its keys; transitions maps a state to a function from      *)
(* symbols to sets of states.  dict(nfa1.transitions) copies the outer dict *)
(* only, but the operand it is copied from was popped and is never read     *)
(* again, so every fragment that is still referenced behaves as a value.    *)

Epsilon == "eps"    \* the symbol 'ε'

EmptyDict == [x \in {} |-> {}]

\* a local that has not been assigned yet
Unbound == [start_state |-> -1, accept_state |-> -1, transitions |-> EmptyDict]

\* NFA.__init__
NFA(start_state, accept_state, transitions) ==
    [start_state |-> start_state, accept_state |-> accept_state,
     transitions |-> transitions]

\* NFA.add_transition, on the transitions dict
AddTransition(tr, from_state, symbol, to_state) ==
    LET t1 == IF from_state \in DOMAIN tr THEN tr
              ELSE tr @@ (from_state :> EmptyDict)
        inner == t1[from_state]
        inner1 == IF symbol \in DOMAIN inner THEN inner
                  ELSE inner @@ (symbol :> {})
    IN [t1 EXCEPT ![from_state] =
            [inner1 EXCEPT ![symbol] = inner1[symbol] \cup {to_state}]]

\* new_state(): the value returned and the counter afterwards
NewStateNoIncrement(id) == [s |-> id, next |-> id]

NewState(id) == [s |-> id, next |-> id + 1]

\* for state, transitions in nfa2.transitions.items(): ... destinations.copy()
MergeTransitions(tr, tr2) ==
    [state \in DOMAIN tr \cup DOMAIN tr2 |->
        IF state \notin DOMAIN tr2 THEN tr[state]
        ELSE LET base == IF state \in DOMAIN tr THEN tr[state] ELSE EmptyDict IN
             [symbol \in DOMAIN base \cup DOMAIN tr2[state] |->
                 IF symbol \in DOMAIN tr2[state] THEN tr2[state][symbol]
                 ELSE base[symbol]]]

\* the literal branch
LiteralFragment(char, start, accept) ==
    NFA(start, accept, AddTransition(EmptyDict, start, char, accept))

\* the '*' branch
StarFragmentLoopsAtAccept(n1, start, accept) ==
    LET t0 == n1.transitions
        t1 == AddTransition(t0, start, Epsilon, n1.start_state)
        t2 == AddTransition(t1, accept, Epsilon, n1.start_state)
        t3 == AddTransition(t2, start, Epsilon, accept)
        t4 == AddTransition(t3, n1.accept_state, Epsilon, accept)
    IN NFA(start, accept, t4)

StarFragment(n1, start, accept) ==
    LET t0 == n1.transitions
        t1 == AddTransition(t0, start, Epsilon, n1.start_state)
        t2 == AddTransition(t1, n1.accept_state, Epsilon, n1.start_state)
        t3 == AddTransition(t2, start, Epsilon, accept)
        t4 == AddTransition(t3, n1.accept_state, Epsilon, accept)
    IN NFA(start, accept, t4)

\* the '+' branch
PlusFragment(n1, start, accept) ==
    LET t0 == n1.transitions
        t1 == AddTransition(t0, start, Epsilon, n1.start_state)
        t2 == AddTransition(t1, n1.accept_state, Epsilon, n1.start_state)
        t3 == AddTransition(t2, n1.accept_state, Epsilon, accept)
    IN NFA(start, accept, t3)

\* the '?' branch
OptionalFragment(n1, start, accept) ==
    LET t0 == n1.transitions
        t1 == AddTransition(t0, start, Epsilon, n1.start_state)
        t2 == AddTransition(t1, n1.accept_state, Epsilon, accept)
        t3 == AddTransition(t2, start, Epsilon, accept)
    IN NFA(start, accept, t3)

\* the '.' branch
ConcatFragmentUnlinked(n1, n2) ==
    NFA(n1.start_state, n2.accept_state,
        MergeTransitions(n1.transitions, n2.transitions))

ConcatFragmentReversed(n1, n2) ==
    LET t0 == MergeTransitions(n2.transitions, n1.transitions)
        t1 == AddTransition(t0, n2.accept_state, Epsilon, n1.start_state)
    IN NFA(n2.start_state, n1.accept_state, t1)

ConcatFragment(n1, n2) ==
    LET t0 == MergeTransitions(n1.transitions, n2.transitions)
        t1 == AddTransition(t0, n1.accept_state, Epsilon, n2.start_state)
    IN NFA(n1.start_state, n2.accept_state, t1)

\* the '|' branch
AlternateFragment(n1, n2, start, accept) ==
    LET t0 == MergeTransitions(n1.transitions, n2.transitions)
        t1 == AddTransition(t0, start, Epsilon, n1.start_state)
        t2 == AddTransition(t1, start, Epsilon, n2.start_state)
        t3 == AddTransition(t2, n1.accept_state, Epsilon, accept)
        t4 == AddTransition(t3, n2.accept_state, Epsilon, accept)
    IN NFA(start, accept, t4)

Top(stk) == stk[Len(stk)]

Pop(stk) == SubSeq(stk, 1, Len(stk) - 1)

\* regex_to_nfa (src/nfa_gui.py:193-197): the argument it passes to
\* postfix_to_nfa, or the error raised before that call
regex_to_postfix(s) ==
    LET e == expand_character_classes(s) IN
    IF e.ok THEN infix_to_postfix(e.value) ELSE e

--------------------------------------------------------------------------
(* The calls as state machines *)

NoResult == [ok |-> FALSE, error |-> "no result yet"]

StringIdle == regex = <<>> /\ explicit = <<>>

BuilderIdle ==
    /\ postfix = <<>> /\ stack = <<>> /\ next_state_id = 0 /\ issued = <<>>
    /\ nfa1 = Unbound /\ nfa2 = Unbound /\ nfa = Unbound

builder_vars == <<postfix, stack, next_state_id, issued, nfa1, nfa2, nfa>>

(* ---- a call of expand_character_classes(regex) ---- *)

ExpandAlphabet == {"a", "c", "[", "]", "-"}

\* a pattern is any string over the alphabet, optionally followed by a class
ExpandSuffixes == {<<>>, <<"[", "a", "-", "c", "]">>}

ExpandInputs ==
    {p \o t : p \in SeqsUpTo(ExpandAlphabet, MaxRegexLen), t \in ExpandSuffixes}

InitExpand ==
    /\ regex \in ExpandInputs
    /\ explicit = <<>>
    /\ ret = NoResult
    /\ pc = "expand"
    /\ BuilderIdle

ExpandReturns ==
    /\ pc = "expand"
    /\ expand_character_classes(regex).ok
    /\ ret' = expand_character_classes(regex)
    /\ pc' = "returned"
    /\ UNCHANGED <<regex, explicit, builder_vars>>

ExpandRaises ==
    /\ pc = "expand"
    /\ ~expand_character_classes(regex).ok
    /\ ret' = expand_character_classes(regex)
    /\ pc' = "raised"
    /\ UNCHANGED <<regex, explicit, builder_vars>>

NextExpand == ExpandReturns \/ ExpandRaises

SpecExpand == InitExpand /\ [][NextExpand]_vars

(* ---- a call of infix_to_postfix(regex) ---- *)

InfixLiterals == {"a", "b"}

InfixAlphabet == InfixLiterals \cup {"(", ")", "|", "*", "+", "?"}

\* a pattern is any string over the alphabet, optionally followed by (a|b)*
InfixSuffixes == {<<>>, <<"(", "a", "|", "b", ")", "*">>}

InfixInputs ==
    {p \o t : p \in SeqsUpTo(InfixAlphabet, MaxInfixLen), t \in InfixSuffixes}

InitPostfix ==
    /\ regex \in InfixInputs
    /\ explicit = <<>>
    /\ ret = NoResult
    /\ pc = "insert_concat"
    /\ BuilderIdle

\* lines 88-97: the first pass
InsertConcat ==
    /\ pc = "insert_concat"
    /\ explicit' = ExplicitConcat(regex)
    /\ pc' = "shunting_yard"
    /\ UNCHANGED <<regex, ret, builder_vars>>

\* lines 99-120: the second pass, when it returns
PostfixReturns ==
    /\ pc = "shunting_yard"
    /\ ShuntingYard(explicit).ok
    /\ ret' = ShuntingYard(explicit)
    /\ pc' = "returned"
    /\ UNCHANGED <<regex, explicit, builder_vars>>

\* lines 99-120: the second pass, when stack.pop() raises
PostfixRaises ==
    /\ pc = "shunting_yard"
    /\ ~ShuntingYard(explicit).ok
    /\ ret' = ShuntingYard(explicit)
    /\ pc' = "raised"
    /\ UNCHANGED <<regex, explicit, builder_vars>>

NextPostfix == InsertConcat \/ PostfixReturns \/ PostfixRaises

SpecPostfix == InitPostfix /\ [][NextPostfix]_vars

(* ---- a call of postfix_to_nfa(postfix): the argument is read one token  *)
(* ---- per loop iteration, and may end after any token                    *)

LiteralTokens == {"a", "b"}

OperatorTokens == {"*", "+", "?", ".", "|"}

InitNfa ==
    /\ StringIdle
    /\ ret = NoResult
    /\ pc = "loop"
    /\ BuilderIdle

More == pc = "loop" /\ Len(postfix) < MaxTokens

IndexError == Raised("IndexError: pop from empty list")

\* lines 134-139
Literal(char) ==
    /\ More
    /\ char \notin OperatorTokens
    /\ LET a == NewState(next_state_id)
           b == NewState(a.next)
           new == LiteralFragment(char, a.s, b.s)
       IN /\ next_state_id' = b.next
          /\ issued' = issued \o <<a.s, b.s>>
          /\ nfa' = new
          /\ stack' = Append(stack, new)
    /\ postfix' = Append(postfix, char)
    /\ UNCHANGED <<regex, explicit, ret, nfa1, nfa2, pc>>

\* lines 140-148
Star ==
    /\ More
    /\ postfix' = Append(postfix, "*")
    /\ IF Len(stack) = 0
       THEN /\ ret' = IndexError
            /\ pc' = "raised"
            /\ UNCHANGED <<stack, next_state_id, issued, nfa1, nfa>>
       ELSE LET n1 == Top(stack)
                a == NewState(next_state_id)
                b == NewState(a.next)
                new == StarFragment(n1, a.s, b.s)
            IN /\ nfa1' = n1
               /\ next_state_id' = b.next
               /\ issued' = issued \o <<a.s, b.s>>
               /\ nfa' = new
               /\ stack' = Append(Pop(stack), new)
               /\ UNCHANGED <<ret, pc>>
    /\ UNCHANGED <<regex, explicit, nfa2>>

\* lines 149-156
Plus ==
    /\ More
    /\ postfix' = Append(postfix, "+")
    /\ IF Len(stack) = 0
       THEN /\ ret' = IndexError
            /\ pc' = "raised"
            /\ UNCHANGED <<stack, next_state_id, issued, nfa1, nfa>>
       ELSE LET n1 == Top(stack)
                a == NewState(next_state_id)
                b == NewState(a.next)
                new == PlusFragment(n1, a.s, b.s)
            IN /\ nfa1' = n1
               /\ next_state_id' = b.next
               /\ issued' = issued \o <<a.s, b.s>>
               /\ nfa' = new
               /\ stack' = Append(Pop(stack), new)
               /\ UNCHANGED <<ret, pc>>
    /\ UNCHANGED <<regex, explicit, nfa2>>

\* lines 157-164
Optional ==
    /\ More
    /\ postfix' = Append(postfix, "?")
    /\ IF Len(stack) = 0
       THEN /\ ret' = IndexError
            /\ pc' = "raised"
            /\ UNCHANGED <<stack, next_state_id, issued, nfa1, nfa>>
       ELSE LET n1 == Top(stack)
                a == NewState(next_state_id)
                b == NewState(a.next)
                new == OptionalFragment(n1, a.s, b.s)
            IN /\ nfa1' = n1
               /\ next_state_id' = b.next
               /\ issued' = issued \o <<a.s, b.s>>
               /\ nfa' = new
               /\ stack' = Append(Pop(stack), new)
               /\ UNCHANGED <<ret, pc>>
    /\ UNCHANGED <<regex, explicit, nfa2>>

\* lines 165-175
Concat ==
    /\ More
    /\ postfix' = Append(postfix, ".")
    /\ IF Len(stack) = 0
       THEN /\ ret' = IndexError
            /\ pc' = "raised"
            /\ UNCHANGED <<stack, nfa1, nfa2, nfa>>
       ELSE IF Len(stack) = 1
       THEN /\ nfa2' = Top(stack)
            /\ stack' = Pop(stack)
            /\ ret' = IndexError
            /\ pc' = "raised"
            /\ UNCHANGED <<nfa1, nfa>>
       ELSE LET n2 == Top(stack)
                n1 == Top(Pop(stack))
                new == ConcatFragment(n1, n2)
            IN /\ nfa2' = n2
               /\ nfa1' = n1
               /\ nfa' = new
               /\ stack' = Append(Pop(Pop(stack)), new)
               /\ UNCHANGED <<ret, pc>>
    /\ UNCHANGED <<regex, explicit, next_state_id, issued>>

\* lines 176-190
Alternate ==
    /\ More
    /\ postfix' = Append(postfix, "|")
    /\ IF Len(stack) = 0
       THEN /\ ret' = IndexError
            /\ pc' = "raised"
            /\ UNCHANGED <<stack, next_state_id, issued, nfa1, nfa2, nfa>>
       ELSE IF Len(stack) = 1
       THEN /\ nfa2' = Top(stack)
            /\ stack' = Pop(stack)
            /\ ret' = IndexError
            /\ pc' = "raised"
            /\ UNCHANGED <<next_state_id, issued, nfa1, nfa>>
       ELSE LET n2 == Top(stack)
                n1 == Top(Pop(stack))
                a == NewState(next_state_id)
                b == NewState(a.next)
                new == AlternateFragment(n1, n2, a.s, b.s)
            IN /\ nfa2' = n2
               /\ nfa1' = n1
               /\ next_state_id' = b.next
               /\ issued' = issued \o <<a.s, b.s>>
               /\ nfa' = new
               /\ stack' = Append(Pop(Pop(stack)), new)
               /\ UNCHANGED <<ret, pc>>
    /\ UNCHANGED <<regex, explicit>>

\* line 191: return stack.pop(), once the argument is exhausted
Return ==
    /\ pc = "loop"
    /\ IF Len(stack) = 0
       THEN /\ ret' = IndexError
            /\ pc' = "raised"
            /\ UNCHANGED stack
       ELSE /\ ret' = Returned(Top(stack))
            /\ stack' = Pop(stack)
            /\ pc' = "returned"
    /\ UNCHANGED <<regex, explicit, postfix, next_state_id, issued, nfa1, nfa2, nfa>>

NextNfa ==
    \/ \E char \in LiteralTokens : Literal(char)
    \/ Star
    \/ Plus
    \/ Optional
    \/ Concat
    \/ Alternate
    \/ Return

SpecNfa == InitNfa /\ [][NextNfa]_vars

--------------------------------------------------------------------------
(* Properties of expand_character_classes, checked under SpecExpand *)

HasClose(s, i) == \E j \in (i + 1)..Len(s) : s[j] = "]"

\* the first ']' after position i
NextClose(s, i) ==
    CHOOSE j \in (i + 1)..Len(s) :
        s[j] = "]" /\ \A k \in (i + 1)..(j - 1) : s[k] # "]"

\* the positions of the '[' that open a class: a '[' from position i on that
\* does not lie inside the brackets of an earlier class
RECURSIVE OpenersFrom(_, _)
OpenersFrom(s, i) ==
    IF i > Len(s) THEN {}
    ELSE IF s[i] # "[" THEN OpenersFrom(s, i + 1)
    ELSE {i} \cup (IF HasClose(s, i) THEN OpenersFrom(s, NextClose(s, i) + 1)
                   ELSE {})

ClassOpeners(s) == OpenersFrom(s, 1)

\* the text between the '[' at position i and the next ']'
ClassBody(s, i) == SubSeq(s, i + 1, NextClose(s, i) - 1)

IsRangeBody(b) == Len(b) = 3 /\ b[2] = "-"

IsRangeClass(s, i) == HasClose(s, i) /\ IsRangeBody(ClassBody(s, i))

HasMalformedClass(s) == \E i \in ClassOpeners(s) : ~IsRangeClass(s, i)

HasReversedClass(s) ==
    \E i \in ClassOpeners(s) :
        /\ IsRangeClass(s, i)
        /\ Ord(ClassBody(s, i)[1]) > Ord(ClassBody(s, i)[3])

AllClassesValid(s) ==
    \A i \in ClassOpeners(s) :
        /\ IsRangeClass(s, i)
        /\ Ord(ClassBody(s, i)[1]) <= Ord(ClassBody(s, i)[3])

\* chr(lo) | chr(lo+1) | ... | chr(hi), for lo <= hi
RECURSIVE Alternation(_, _)
Alternation(lo, hi) ==
    IF lo = hi THEN <<Chr(lo)>>
    ELSE Alternation(lo, hi - 1) \o <<"|", Chr(hi)>>

InsideClass(s, i) ==
    \E o \in ClassOpeners(s) : HasClose(s, o) /\ o < i /\ i <= NextClose(s, o)

\* what position i of a pattern with valid classes contributes to the result
Piece(s, i) ==
    IF i \in ClassOpeners(s)
    THEN <<"(">> \o Alternation(Ord(ClassBody(s, i)[1]), Ord(ClassBody(s, i)[3]))
               \o <<")">>
    ELSE IF InsideClass(s, i) THEN <<>>
    ELSE <<s[i]>>

RECURSIVE PiecesUpTo(_, _)
PiecesUpTo(s, n) == IF n = 0 THEN <<>> ELSE PiecesUpTo(s, n - 1) \o Piece(s, n)

ExpectedExpansion(s) == PiecesUpTo(s, Len(s))

ExpandDone == pc \in {"returned", "raised"} /\ explicit = <<>> /\ postfix = <<>>

\* C3: a class whose start ordinal is greater than its end ordinal (a reversed
\* range such as [c-a]) makes expand_character_classes fail with an error, and
\* no class is expanded to the empty group "()".
C3_ReversedRangeRaises ==
    (ExpandDone /\ HasReversedClass(regex)) => pc = "raised"

\* C4: when every '[' of the pattern opens a class [x-y] with ord(x) <= ord(y),
\* expand_character_classes returns the pattern with each class replaced by
\* '(' x | ... | y ')' in ascending ordinal order, and with every character
\* outside the brackets copied unchanged and in order.
C4_ValidClassesExpanded ==
    (ExpandDone /\ AllClassesValid(regex))
        => (pc = "returned" /\ ret.ok /\ ret.value = ExpectedExpansion(regex))

\* a returned pattern with two classes, one of them of several characters, and
\* a character outside the brackets
C4_Witness ==
    /\ ExpandDone /\ pc = "returned"
    /\ AllClassesValid(regex)
    /\ Cardinality(ClassOpeners(regex)) = 2
    /\ \E i \in ClassOpeners(regex) :
           Ord(ClassBody(regex, i)[1]) < Ord(ClassBody(regex, i)[3])
    /\ \E i \in 1..Len(regex) :
           i \notin ClassOpeners(regex) /\ ~InsideClass(regex, i)

\* C5: expand_character_classes fails with an error and returns no string when
\* a class-opening '[' has no ']' after it, and when the text between it and
\* the next ']' is not exactly three characters with '-' in the middle.
C5_MalformedClassRaises ==
    (ExpandDone /\ HasMalformedClass(regex)) => (pc = "raised" /\ ~ret.ok)

\* a raised call on a pattern whose first malformed class holds three
\* characters, a '-' among them but not in the middle
C5_Witness ==
    /\ ExpandDone /\ pc = "raised"
    /\ \E i \in ClassOpeners(regex) :
           /\ HasClose(regex, i)
           /\ Len(ClassBody(regex, i)) = 3
           /\ "-" \in Range(ClassBody(regex, i))
           /\ ClassBody(regex, i)[2] # "-"
           /\ \A o \in ClassOpeners(regex) : o < i => IsRangeClass(regex, o)

--------------------------------------------------------------------------
(* Properties of infix_to_postfix, checked under SpecPostfix *)

Count(s, c, k) == Cardinality({i \in 1..k : s[i] = c})

\* every ')' closes an earlier '(' and every '(' is closed
Balanced(s) ==
    /\ \A k \in 1..Len(s) : Count(s, ")", k) <= Count(s, "(", k)
    /\ Count(s, ")", Len(s)) = Count(s, "(", Len(s))

Quantifiers == {"*", "+", "?"}

(* The grammar of the infix syntax, as a recursive-descent parser that gives  *)
(* the postfix order of the parse tree:                                      *)
(*     alt  ::= cat ('|' cat)*      left-associative, lowest precedence      *)
(*     cat  ::= rep rep*            left-associative                         *)
(*     rep  ::= atom ('*'|'+'|'?')*                                          *)
(*     atom ::= literal | '(' alt ')'                                        *)
(* A parse from position i gives [ok, out, next]: whether it succeeded, the  *)
(* postfix of what it read, and the position after it.                       *)
NoParse == [ok |-> FALSE, out |-> <<>>, next |-> 0]

RECURSIVE ParseAlt(_, _)
RECURSIVE ParseAltRest(_, _, _)
RECURSIVE ParseCat(_, _)
RECURSIVE ParseCatRest(_, _, _)
RECURSIVE ParseRep(_, _)
RECURSIVE ParseQuantifiers(_, _, _)
RECURSIVE ParseAtom(_, _)

ParseAtom(s, i) ==
    IF i > Len(s) THEN NoParse
    ELSE IF s[i] \in InfixLiterals
    THEN [ok |-> TRUE, out |-> <<s[i]>>, next |-> i + 1]
    ELSE IF s[i] = "("
    THEN LET r == ParseAlt(s, i + 1) IN
         IF r.ok /\ r.next <= Len(s) /\ s[r.next] = ")"
         THEN [ok |-> TRUE, out |-> r.out, next |-> r.next + 1]
         ELSE NoParse
    ELSE NoParse

ParseQuantifiers(s, i, out) ==
    IF i <= Len(s) /\ s[i] \in Quantifiers
    THEN ParseQuantifiers(s, i + 1, Append(out, s[i]))
    ELSE [ok |-> TRUE, out |-> out, next |-> i]

ParseRep(s, i) ==
    LET a == ParseAtom(s, i) IN
    IF a.ok THEN ParseQuantifiers(s, a.next, a.out) ELSE NoParse

ParseCatRest(s, i, out) ==
    IF i <= Len(s) /\ s[i] \in InfixLiterals \cup {"("}
    THEN LET r == ParseRep(s, i) IN
         IF r.ok THEN ParseCatRest(s, r.next, out \o r.out \o <<".">>)
         ELSE NoParse
    ELSE [ok |-> TRUE, out |-> out, next |-> i]

ParseCat(s, i) ==
    LET r == ParseRep(s, i) IN
    IF r.ok THEN ParseCatRest(s, r.next, r.out) ELSE NoParse

ParseAltRest(s, i, out) ==
    IF i <= Len(s) /\ s[i] = "|"
    THEN LET r == ParseCat(s, i + 1) IN
         IF r.ok THEN ParseAltRest(s, r.next, out \o r.out \o <<"|">>)
         ELSE NoParse
    ELSE [ok |-> TRUE, out |-> out, next |-> i]

ParseAlt(s, i) ==
    LET r == ParseCat(s, i) IN
    IF r.ok THEN ParseAltRest(s, r.next, r.out) ELSE NoParse

ValidPattern(s) == ParseAlt(s, 1).ok /\ ParseAlt(s, 1).next = Len(s) + 1

ParsePostfix(s) == ParseAlt(s, 1).out

\* the positions after which the rule asks for a concatenation operator
ConcatPoints(s) ==
    {i \in 1..(Len(s) - 1) :
        /\ ~(s[i] = "(" \/ s[i] = "|")
        /\ ~(s[i + 1] = ")" \/ s[i + 1] = "|" \/ s[i + 1] \in Quantifiers)}

\* e is s with a '.' after exactly the positions of ConcatPoints(s)
IsExplicitForm(e, s) ==
    LET before(i) == Cardinality({k \in ConcatPoints(s) : k < i}) IN
    /\ Len(e) = Len(s) + Cardinality(ConcatPoints(s))
    /\ \A i \in 1..Len(s) : e[i + before(i)] = s[i]
    /\ \A k \in ConcatPoints(s) : e[k + before(k) + 1] = "."

PostfixDone == pc \in {"returned", "raised"} /\ postfix = <<>> /\ stack = <<>>

\* C1: infix_to_postfix fails with an error for every pattern whose
\* parentheses are unbalanced (a ')' with no '(' on the stack, or a '(' left on
\* the stack at the end), and never returns a string that contains '('.
C1_UnbalancedParenRaises ==
    /\ (PostfixDone /\ ~Balanced(regex)) => pc = "raised"
    /\ (PostfixDone /\ pc = "returned") => "(" \notin Range(ret.value)

\* C6: for a syntactically valid pattern, the first pass inserts '.' between c
\* and next exactly when c is not '(' or '|' and next is not ')', '|', '*', '+'
\* or '?', and the call returns the postfix order of the parse tree in which
\* quantifiers bind tighter than concatenation, concatenation tighter than
\* alternation, and binary operators associate to the left.
C6_PostfixOfParseTree ==
    /\ (pc # "insert_concat" /\ ValidPattern(regex))
           => IsExplicitForm(explicit, regex)
    /\ (PostfixDone /\ ValidPattern(regex))
           => (pc = "returned" /\ ret.ok /\ ret.value = ParsePostfix(regex))

\* a returned call on a valid pattern with a group, an alternation, a
\* quantifier and two concatenations
C6_Witness ==
    /\ PostfixDone /\ pc = "returned"
    /\ ValidPattern(regex)
    /\ {"(", "|"} \subseteq Range(regex)
    /\ Range(regex) \cap Quantifiers # {}
    /\ Cardinality(ConcatPoints(regex)) >= 2

--------------------------------------------------------------------------
(* Properties of postfix_to_nfa, checked under SpecNfa *)

\* the edges <<from, symbol, to>> of a transitions dict
Edges(tr) ==
    UNION {UNION {{<<s, sym, t>> : t \in tr[s][sym]} : sym \in DOMAIN tr[s]}
           : s \in DOMAIN tr}

\* no (state, symbol) entry holds an empty set, no state an empty dict
NoEmptyEntry(tr) ==
    \A s \in DOMAIN tr :
        DOMAIN tr[s] # {} /\ \A sym \in DOMAIN tr[s] : tr[s][sym] # {}

\* the states that occur as a source or a target of a transition
EdgeStates(f) ==
    DOMAIN f.transitions \cup {e[3] : e \in Edges(f.transitions)}

AllStates(f) == EdgeStates(f) \cup {f.start_state, f.accept_state}

\* the states reachable from the states S along the edges E
RECURSIVE ReachableFrom(_, _)
ReachableFrom(E, S) ==
    LET T == S \cup {e[3] : e \in {d \in E : d[1] \in S}} IN
    IF T = S THEN S ELSE ReachableFrom(E, T)

Reachable(f) == ReachableFrom(Edges(f.transitions), {f.start_state})

\* the fragments the call still holds: the operand stack and the returned Nfa
LiveFragments ==
    Range(stack) \cup (IF pc = "returned" THEN {ret.value} ELSE {})

LastToken == postfix[Len(postfix)]

\* the last loop iteration completed, and its token was tok
Processed(tok) == pc = "loop" /\ Len(postfix) > 0 /\ LastToken = tok

\* the number of operands on the stack after the tokens s[1..k], or -1 once an
\* operator found fewer operands than it needs
RECURSIVE Operands(_, _)
Operands(s, k) ==
    IF k = 0 THEN 0
    ELSE LET d == Operands(s, k - 1) IN
         IF d < 0 THEN -1
         ELSE IF s[k] \in {"*", "+", "?"} THEN (IF d >= 1 THEN d ELSE -1)
         ELSE IF s[k] \in {".", "|"} THEN (IF d >= 2 THEN d - 1 ELSE -1)
         ELSE d + 1

WellFormedPostfix(s) == Operands(s, Len(s)) = 1

\* C2: postfix_to_nfa returns an Nfa if and only if the token sequence is
\* well-formed: it fails when an operator finds fewer fragments than it needs,
\* and when more than one fragment remains after the last token.
C2_ReturnsIffWellFormed ==
    (pc \in {"returned", "raised"})
        => (pc = "returned" <=> WellFormedPostfix(postfix))

\* C7, one token: the step from a stack to the next one pops the operands (N2
\* the top, N1 below it), pushes one fragment whose edges are the operands'
\* edges plus those of the token's rule, and mints s0, s1 except for '.'.
C7_Step ==
    (pc = "loop" /\ pc' = "loop" /\ postfix' # postfix) =>
        LET tok == postfix'[Len(postfix')]
            n == Len(stack)
            new == stack'[Len(stack')]
            E == Edges(new.transitions)
            s0 == next_state_id
            s1 == next_state_id + 1
            top == stack[n]
            below == stack[n - 1]
            Fresh == /\ new.start_state = s0 /\ new.accept_state = s1
                     /\ next_state_id' = next_state_id + 2
                     /\ \A f \in Range(stack) : {s0, s1} \cap AllStates(f) = {}
            OnePopped == n >= 1 /\ stack' = Append(SubSeq(stack, 1, n - 1), new)
            TwoPopped == n >= 2 /\ stack' = Append(SubSeq(stack, 1, n - 2), new)
        IN /\ postfix' = Append(postfix, tok)
           /\ NoEmptyEntry(new.transitions)
           /\ CASE tok = "*" ->
                     /\ OnePopped /\ Fresh
                     /\ E = Edges(top.transitions)
                            \cup {<<s0, Epsilon, top.start_state>>,
                                  <<top.accept_state, Epsilon, top.start_state>>,
                                  <<s0, Epsilon, s1>>,
                                  <<top.accept_state, Epsilon, s1>>}
                [] tok = "+" ->
                     /\ OnePopped /\ Fresh
                     /\ E = Edges(top.transitions)
                            \cup {<<s0, Epsilon, top.start_state>>,
                                  <<top.accept_state, Epsilon, top.start_state>>,
                                  <<top.accept_state, Epsilon, s1>>}
                [] tok = "?" ->
                     /\ OnePopped /\ Fresh
                     /\ E = Edges(top.transitions)
                            \cup {<<s0, Epsilon, top.start_state>>,
                                  <<top.accept_state, Epsilon, s1>>,
                                  <<s0, Epsilon, s1>>}
                [] tok = "|" ->
                     /\ TwoPopped /\ Fresh
                     /\ E = Edges(below.transitions) \cup Edges(top.transitions)
                            \cup {<<s0, Epsilon, below.start_state>>,
                                  <<s0, Epsilon, top.start_state>>,
                                  <<below.accept_state, Epsilon, s1>>,
                                  <<top.accept_state, Epsilon, s1>>}
                [] tok = "." ->
                     /\ TwoPopped
                     /\ next_state_id' = next_state_id
                     /\ new.start_state = below.start_state
                     /\ new.accept_state = top.accept_state
                     /\ E = Edges(below.transitions) \cup Edges(top.transitions)
                            \cup {<<below.accept_state, Epsilon, top.start_state>>}
                [] OTHER ->
                     /\ stack' = Append(stack, new) /\ Fresh
                     /\ E = {<<s0, tok, s1>>}

\* C7, the single literal: regex_to_nfa(c) has exactly two states, start and
\* accept distinct, and the one transition start --c--> accept
C7_SingleLiteral ==
    \A c \in LiteralTokens :
        (pc # "loop" /\ regex_to_postfix(<<c>>).ok
                     /\ postfix = regex_to_postfix(<<c>>).value)
            => /\ pc = "returned"
               /\ Cardinality(AllStates(ret.value)) = 2
               /\ ret.value.start_state # ret.value.accept_state
               /\ Edges(ret.value.transitions)
                      = {<<ret.value.start_state, c, ret.value.accept_state>>}

\* C7: each token processed by postfix_to_nfa produces the fragment of its
\* Thompson rule over the consumed operands, and regex_to_nfa of a single
\* literal yields two states and one transition.
C7_ThompsonRules == [][C7_Step]_vars /\ []C7_SingleLiteral

\* a concatenation has just been processed whose operands were built by a
\* star and an alternation
C7_Witness ==
    /\ Processed(".")
    /\ {"*", "|"} \subseteq Range(postfix)
    /\ Len(stack) = 1

\* C8: new_state() issues 0, 1, 2, ... and never the same identifier twice;
\* the fragments on the operand stack have pairwise disjoint state sets; the
\* merge of '.' and '|' leaves every (state, symbol) entry of both operands
\* as it was.
C8_DisjointStates ==
    /\ \A i \in 1..Len(issued) : issued[i] = i - 1
    /\ next_state_id = Len(issued)
    /\ \A i, j \in 1..Len(stack) :
           i # j => AllStates(stack[i]) \cap AllStates(stack[j]) = {}
    /\ (Processed(".") \/ Processed("|")) =>
           \A n \in {nfa1, nfa2} :
               \A s \in DOMAIN n.transitions :
                   /\ s \in DOMAIN nfa.transitions
                   /\ \A sym \in DOMAIN n.transitions[s] :
                          /\ sym \in DOMAIN nfa.transitions[s]
                          /\ nfa.transitions[s][sym] = n.transitions[s][sym]

\* an alternation has just merged two fragments while another fragment stays
\* on the stack
C8_Witness ==
    /\ Processed("|")
    /\ Len(stack) = 2
    /\ Len(issued) >= 8

\* C9: without underflow, in every fragment on the stack and in the returned
\* Nfa each state that is a source or a target of a transition is reachable
\* from the start state, so is the accept state, and no transition touches a
\* state of another fragment on the stack.
C9_ReachableAndSeparate ==
    pc # "raised" =>
        /\ \A f \in LiveFragments :
               /\ EdgeStates(f) \subseteq Reachable(f)
               /\ f.accept_state \in Reachable(f)
        /\ \A i, j \in 1..Len(stack) :
               i # j => EdgeStates(stack[i]) \cap AllStates(stack[j]) = {}

\* two composite fragments are on the stack together
C9_Witness ==
    /\ pc = "loop"
    /\ Len(stack) = 2
    /\ \A i \in 1..2 : Cardinality(EdgeStates(stack[i])) >= 4

\* C10: without underflow, every fragment on the stack and the returned Nfa
\* has start # accept, no transition out of accept and none into start; so an
\* edge an operator adds from an operand's accept state starts a new
\* (state, symbol) entry rather than extending one inherited from an operand.
C10_AcceptHasNoExit ==
    pc # "raised" =>
        /\ \A f \in LiveFragments :
               /\ f.start_state # f.accept_state
               /\ \A e \in Edges(f.transitions) :
                      e[1] # f.accept_state /\ e[3] # f.start_state
               /\ f.accept_state \notin DOMAIN f.transitions
        /\ \A tok \in {"*", "+", "?"} :
               Processed(tok) => nfa1.accept_state \notin DOMAIN nfa1.transitions
        /\ \A tok \in {".", "|"} :
               Processed(tok) =>
                   {nfa1.accept_state, nfa2.accept_state}
                       \cap (DOMAIN nfa1.transitions \cup DOMAIN nfa2.transitions)
                   = {}

\* a concatenation has just linked the accept state of a starred fragment
C10_Witness ==
    /\ Processed(".")
    /\ Len(postfix) >= 3
    /\ postfix[Len(postfix) - 2] = "*"

=============================================================================
